---- MODULE Spec2Model ----
(***************************************************************************)
(* The restaurant dashboard backend: a record store (User, Shift,          *)
(* Delivery, Training, Appointment), the snapshot assembler getAllData,    *)
(* the socket handlers addWorker / updateEntry / workerToggleStatus, the   *)
(* login route and seedDatabase.                                           *)
(*                                                                         *)
(* The repository holds two builds of the same server: src/server.js on    *)
(* Sequelize + SQLite and src/unnamed/part_000 on Mongoose + MongoDB.      *)
(* The variable backend says which one a behaviour runs; it never changes. *)
(*                                                                         *)
(* Every `await` of a handler is a separate step, so other handlers        *)
(* interleave exactly where the event loop lets them.  An init message is  *)
(* received when it is emitted: a socket delivers in order.                *)
(* A client sends its next event when the handler of its previous one is   *)
(* over; the handlers of different clients overlap.                        *)
(*                                                                         *)
(* Left out: the createdAt / updatedAt columns Sequelize adds and the __v  *)
(* field Mongoose adds, which no handler reads; disconnection of a client. *)
(***************************************************************************)
EXTENDS Integers, Sequences, FiniteSets, TLC

VARIABLES
    backend,        \* "sqlite" (src/server.js) or "mongo" (src/unnamed/part_000)
    users,          \* table User, in the order a query scans it
    shifts,         \* table Shift
    deliveries,     \* table Delivery
    training,       \* table Training
    appointments,   \* table Appointment
    shiftSeq,       \* sqlite: the AUTOINCREMENT high-water mark of table Shift
    now,            \* mongo: the last value Date.now() returned
    ready,          \* 2 while the store is being opened, 1 once it answers,
                    \* 0 when opening it failed
    seedPc,         \* where seedDatabase stands
    pc,             \* per socket: where its running handler stands
    args,           \* per socket: the event its running handler was called with
    found,          \* per socket: what findOne gave workerToggleStatus
    snap,           \* per socket: the object getAllData is filling
    lastInit,       \* per socket: the last init message it received, if any
    nInit,          \* per socket: how many init messages it has received
    loginRes,       \* the last request to POST /api/login and its response
    events,         \* per socket: the events received from it so far, by name
    logins,         \* login requests received so far
    failures,       \* store operations that failed on their own so far
    sinceSeed,      \* history, per socket: it connected to a store that was
                    \* as a completed seed of an empty store left it
    toggled,        \* history: the writes of workerToggleStatus, oldest first
    ignored,        \* history: updateEntry events whose category no table has
    partial,        \* history: calls of getAllData that threw after a read of
                    \* theirs was answered
    unheard         \* history, per socket: the events it sent that found no
                    \* listener, by name

store == <<users, shifts, deliveries, training, appointments, shiftSeq>>
opening == <<ready, seedPc>>
handlers == <<pc, args, found, snap>>
channel == <<lastInit, nInit>>
requests == <<loginRes, logins>>
history == <<sinceSeed, toggled, ignored, partial, unheard>>

vars == <<backend, store, now, opening, handlers, channel, requests, events,
          failures, history>>

-----------------------------------------------------------------------------
(* Bounds of the model *)

\* addWorker events the server receives
MaxAddWorker == 1
\* updateEntry events the server receives from clients that edit one entry
MaxUpdateEntry == 2
\* updateEntry events the server receives from a client that sends any input
MaxEdits == 1
\* workerToggleStatus events the server receives
MaxToggle == 2
\* login requests the server receives
MaxLogin == 2
\* milliseconds the clock advances during a run
MaxTicks == 1
\* store operations that fail on their own during a run
MaxFailures == 1
\* workerToggleStatus events the server receives from clients that toggle a
\* name two Shifts have
MaxNamesakeToggle == 1
\* events the server receives from a socket before its listeners are
\* registered
MaxEarly == 1
\* Date.now() when the server starts
ClockStart == 1000

Sockets == {"s1", "s2"}

Backends == {"sqlite", "mongo"}

-----------------------------------------------------------------------------
(* Values *)

\* parseInt and Number give NaN; no identifier of the model is negative
NaN == 0 - 1

Digit == <<"0", "1", "2", "3", "4", "5", "6", "7", "8", "9">>

IsDigit(ch) == \E i \in 1..10 : Digit[i] = ch

DigitValue(ch) == (CHOOSE i \in 1..10 : Digit[i] = ch) - 1

\* the decimal text of a natural number, as the client sends an id it has seen
RECURSIVE ToText(_)
ToText(n) == IF n < 10 THEN <<Digit[n + 1]>>
             ELSE Append(ToText(n \div 10), Digit[(n % 10) + 1])

\* the length of the longest prefix of t made of digits
RECURSIVE DigitPrefix(_)
DigitPrefix(t) == IF t = <<>> \/ ~IsDigit(Head(t)) THEN 0
                  ELSE 1 + DigitPrefix(Tail(t))

RECURSIVE DigitsValue(_)
DigitsValue(t) == IF t = <<>> THEN 0
                  ELSE 10 * DigitsValue(SubSeq(t, 1, Len(t) - 1))
                       + DigitValue(t[Len(t)])

\* parseInt(id) for a text of digits and letters: the leading digits, read
\* as a decimal number, and NaN when the text does not start with a digit
ParseInt(t) == IF DigitPrefix(t) = 0 THEN NaN
               ELSE DigitsValue(SubSeq(t, 1, DigitPrefix(t)))

\* the cast of a text to a Number column: the whole text has to be a number
CastNumber(t) == IF t # <<>> /\ DigitPrefix(t) = Len(t) THEN DigitsValue(t)
                 ELSE NaN

-----------------------------------------------------------------------------
(* The record store *)

Max(a, b) == IF a >= b THEN a ELSE b

RECURSIVE MaxId(_)
MaxId(rows) == IF rows = <<>> THEN 0
               ELSE Max(Head(rows).id, MaxId(Tail(rows)))

\* SQLite scans a table in rowid order, and the rowid is the id column
RECURSIVE InsertById(_, _)
InsertById(rows, r) ==
    IF rows = <<>> THEN <<r>>
    ELSE IF r.id < Head(rows).id THEN <<r>> \o rows
    ELSE <<Head(rows)>> \o InsertById(Tail(rows), r)

RECURSIVE SortById(_)
SortById(rows) == IF rows = <<>> THEN <<>>
                  ELSE InsertById(SortById(Tail(rows)), Head(rows))

\* the ObjectId Mongoose gives a new document: unique in the database
NewObjectId == Len(users) + Len(shifts) + Len(deliveries) + Len(training)
               + Len(appointments) + 1

\* the columns of the four tables updateEntry can write
Attributes(category) ==
    CASE category = "shifts"       -> {"id", "name", "role", "time", "status"}
      [] category = "deliveries"   -> {"id", "label", "items", "address", "status"}
      [] category = "training"     -> {"id", "topic", "trainer", "time", "attendees"}
      [] category = "appointments" -> {"id", "with", "purpose", "time", "location"}

\* Models[category]: the table behind a category of updateEntry
Models == {"shifts", "deliveries", "training", "appointments"}

Table(category) ==
    CASE category = "shifts"       -> shifts
      [] category = "deliveries"   -> deliveries
      [] category = "training"     -> training
      [] category = "appointments" -> appointments

\* unique: true on User.username; the Mongoose schema declares no index
UsernameUnique == backend = "sqlite"

\* Fault: no index refuses a username, as if unique: true were missing
NeverRefused(username) == FALSE

\* User.create / new User(...).save() is refused
UserCreateFails(username) ==
    UsernameUnique /\ \E i \in 1..Len(users) : users[i].username = username

NewUser(username, password, role) ==
    IF backend = "sqlite"
    THEN [id |-> MaxId(users) + 1, username |-> username,
          password |-> password, role |-> role]
    ELSE [_id |-> NewObjectId, username |-> username,
          password |-> password, role |-> role]

CreateUser(username, password, role) ==
    Append(users, NewUser(username, password, role))

\* the id SQLite gives a row of Shift inserted without one
NextShiftId == Max(shiftSeq, MaxId(shifts)) + 1

\* Fault: name and role are stored the other way round
NewShiftSwapped(id, name, role, time, status) ==
    IF backend = "sqlite"
    THEN [id |-> id, name |-> role, role |-> name, time |-> time,
          status |-> status]
    ELSE [_id |-> NewObjectId, id |-> id, name |-> role, role |-> name,
          time |-> time, status |-> status]

\* a Shift row; id is the id passed to the constructor (mongo) or
\* the one the table assigns (sqlite)
NewShift(id, name, role, time, status) ==
    IF backend = "sqlite"
    THEN [id |-> id, name |-> name, role |-> role, time |-> time,
          status |-> status]
    ELSE [_id |-> NewObjectId, id |-> id, name |-> name, role |-> role,
          time |-> time, status |-> status]

NewDelivery(id, label, items, address, status) ==
    IF backend = "sqlite"
    THEN [id |-> id, label |-> label, items |-> items, address |-> address,
          status |-> status]
    ELSE [_id |-> NewObjectId, id |-> id, label |-> label, items |-> items,
          address |-> address, status |-> status]

\* the positions of the rows an update by id reaches: every row with that id
\* for Model.update, the first one for findOneAndUpdate
Matching(rows, n) ==
    LET all == {i \in 1..Len(rows) : rows[i].id = n}
    IN  IF backend = "sqlite" \/ all = {} THEN all
        ELSE {CHOOSE i \in all : \A j \in all : i <= j}

\* what the column takes for a raw value: a Number for id, the value as it
\* is for a text column
Stored(field, value) == IF field = "id" THEN CastNumber(value) ELSE value

\* Models[category].update / findOneAndUpdate throws
UpdateFails(category, n, field, value) ==
    LET rows == Table(category)
        hit  == Matching(rows, n)
        bad  == field = "id" /\ CastNumber(value) = NaN
    IN  \/ n = NaN
        \/ /\ backend = "mongo"
           /\ field \in Attributes(category)
           /\ bad
        \/ /\ backend = "sqlite"
           /\ field \in Attributes(category)
           /\ hit # {}
           /\ \/ bad
              \/ /\ field = "id"
                 /\ \E j \in 1..Len(rows) :
                       j \notin hit /\ rows[j].id = CastNumber(value)

\* Fault: the update is issued without its where clause
UpdatedEveryRow(category, n, field, value) ==
    LET rows == Table(category)
        new  == [i \in 1..Len(rows) |->
                    IF field \in Attributes(category)
                    THEN [rows[i] EXCEPT ![field] = Stored(field, value)]
                    ELSE rows[i]]
    IN  IF backend = "sqlite" THEN SortById(new) ELSE new

\* the table after Models[category].update / findOneAndUpdate went through
Updated(category, n, field, value) ==
    LET rows == Table(category)
        hit  == Matching(rows, n)
        new  == [i \in 1..Len(rows) |->
                    IF i \in hit /\ field \in Attributes(category)
                    THEN [rows[i] EXCEPT ![field] = Stored(field, value)]
                    ELSE rows[i]]
    IN  IF backend = "sqlite" THEN SortById(new) ELSE new

\* Shift.findOne by name: the first row in scan order, as a sequence of
\* at most one instance
FindShiftByName(name) ==
    LET all == {i \in 1..Len(shifts) : shifts[i].name = name}
    IN  IF all = {} THEN <<>>
        ELSE <<shifts[CHOOSE i \in all : \A j \in all : i <= j]>>

\* Fault: the branches of the conditional are exchanged
StuckStatus(shift) == IF shift.status = "On Duty" THEN "On Duty" ELSE "Off Duty"

\* Fault: a status other than "On Duty" and "Off Duty" is written back
KeptStatus(shift) ==
    CASE shift.status = "On Duty"  -> "Off Duty"
      [] shift.status = "Off Duty" -> "On Duty"
      [] OTHER                     -> shift.status

\* the status workerToggleStatus writes for an instance
NewStatus(shift) == IF shift.status = "On Duty" THEN "Off Duty" ELSE "On Duty"

\* the row an instance stands for: by primary key id for Sequelize, by _id
\* for Mongoose
SameRow(row, instance) ==
    IF backend = "sqlite" THEN row.id = instance.id
    ELSE row._id = instance._id

\* Fault: the write is by the name the event gave, not by the instance found
SavedByName(instance, status) ==
    [i \in 1..Len(shifts) |->
        IF shifts[i].name = instance.name
        THEN [shifts[i] EXCEPT !.status = status]
        ELSE shifts[i]]

\* table Shift after shift.update({status}) / shift.save()
SavedStatus(instance, status) ==
    [i \in 1..Len(shifts) |->
        IF SameRow(shifts[i], instance)
        THEN [shifts[i] EXCEPT !.status = status]
        ELSE shifts[i]]

\* Fault: the password is left out of the query
FindUserByName(username, password) ==
    LET all == {i \in 1..Len(users) : users[i].username = username}
    IN  IF all = {} THEN <<>>
        ELSE <<users[CHOOSE i \in all : \A j \in all : i <= j]>>

\* User.findOne by username and password
FindUser(username, password) ==
    LET all == {i \in 1..Len(users) :
                   users[i].username = username /\ users[i].password = password}
    IN  IF all = {} THEN <<>>
        ELSE <<users[CHOOSE i \in all : \A j \in all : i <= j]>>

EmptySnapshot == [shifts |-> <<>>, deliveries |-> <<>>, training |-> <<>>,
                  appointments |-> <<>>]

-----------------------------------------------------------------------------
(* State after start-up *)

NoArgs == [type |-> "none"]

\* The store outlives the server.  A start finds the store of a first
\* installation ("fresh"), the store a completed seed left ("seeded"), or
\* the store an earlier run left in which the seed completed, Ann was added
\* and Sarah Connor toggled herself off duty ("staffed").  Rows are written
\* as the build at hand stores them: with the primary key id for Sequelize,
\* with _id and the id field for Mongoose; Ann's Mongoose id is a Date.now()
\* of the earlier run.
Persisted == {"fresh", "seeded", "staffed"}

PersistedUsers(b, p) ==
    LET admin == [username |-> "admin", password |-> "123", role |-> "admin"]
        ann   == [username |-> "Ann", password |-> "123", role |-> "worker"]
        row(n, m, r) == IF b = "sqlite" THEN [id |-> n] @@ r
                        ELSE [_id |-> m] @@ r
    IN  CASE p = "fresh"   -> <<>>
          [] p = "seeded"  -> <<row(1, 1, admin)>>
          [] p = "staffed" -> <<row(1, 1, admin), row(2, 4, ann)>>

PersistedShifts(b, p) ==
    LET sarah == [id |-> 1, name |-> "Sarah Connor", role |-> "Head Chef",
                  time |-> "10:00 - 18:00",
                  status |-> IF p = "staffed" THEN "Off Duty" ELSE "On Duty"]
        ann   == [id |-> IF b = "sqlite" THEN 2 ELSE ClockStart - 1,
                  name |-> "Ann", role |-> "Cook", time |-> "9 - 17",
                  status |-> "Scheduled"]
        row(m, r) == IF b = "sqlite" THEN r ELSE [_id |-> m] @@ r
    IN  CASE p = "fresh"   -> <<>>
          [] p = "seeded"  -> <<row(2, sarah)>>
          [] p = "staffed" -> <<row(2, sarah), row(5, ann)>>

PersistedDeliveries(b, p) ==
    LET order == [id |-> 992, label |-> "#ORD-992", items |-> "2x Burgers",
                  address |-> "12 Main St", status |-> "Cooking"]
    IN  IF p = "fresh" THEN <<>>
        ELSE <<IF b = "sqlite" THEN order ELSE [_id |-> 3] @@ order>>

Init ==
    /\ backend \in Backends
    /\ \E p \in Persisted :
          /\ users = PersistedUsers(backend, p)
          /\ shifts = PersistedShifts(backend, p)
          /\ deliveries = PersistedDeliveries(backend, p)
          /\ shiftSeq = IF backend = "sqlite" THEN Len(shifts) ELSE 0
          \* the tables of a Sequelize store exist once a first run synced
          /\ ready = IF backend = "sqlite" /\ p # "fresh" THEN 1 ELSE 2
    /\ training = <<>>
    /\ appointments = <<>>
    /\ now = ClockStart
    /\ seedPc = IF backend = "sqlite" THEN "sync" ELSE "timer"
    /\ pc = [s \in Sockets |-> "off"]
    /\ args = [s \in Sockets |-> NoArgs]
    /\ found = [s \in Sockets |-> <<>>]
    /\ snap = [s \in Sockets |-> EmptySnapshot]
    /\ lastInit = [s \in Sockets |-> <<>>]
    /\ nInit = [s \in Sockets |-> 0]
    /\ loginRes = <<>>
    /\ events = [s \in Sockets |-> [addWorker |-> 0, updateEntry |-> 0,
                                    workerToggleStatus |-> 0]]
    /\ logins = 0
    /\ failures = 0
    /\ sinceSeed = [s \in Sockets |-> FALSE]
    /\ toggled = <<>>
    /\ ignored = 0
    /\ partial = 0
    /\ unheard = [s \in Sockets |-> [addWorker |-> 0, updateEntry |-> 0,
                                     workerToggleStatus |-> 0]]

\* the events of one name received so far, from all sockets
RECURSIVE Sum(_, _)
Sum(f, S) == IF S = {} THEN 0
             ELSE LET x == CHOOSE y \in S : TRUE
                  IN  f[x] + Sum(f, S \ {x})

Received(name) == Sum([s \in Sockets |-> events[s][name]], Sockets)

\* a store operation can be answered
StoreUp == ready = 1

\* a store operation is bound to throw: opening the store failed, or the
\* Sequelize build reaches a store whose tables sync() has not created yet
StoreDown == ready = 0 \/ (backend = "sqlite" /\ ready = 2)

\* a store operation can throw: the store is down, or the operation fails on
\* its own (an I/O error, a command buffered for too long)
CanThrow == StoreDown \/ failures < MaxFailures

\* failures counts the operations that failed on their own
Thrown == IF StoreDown THEN failures ELSE failures + 1

-----------------------------------------------------------------------------
(* Opening the store, and seedDatabase *)

\* sequelize.sync() creates the tables
SeedSync ==
    /\ backend = "sqlite"
    /\ seedPc = "sync"
    /\ ready' = 1
    /\ seedPc' = "find"
    /\ UNCHANGED <<backend, store, now, handlers, channel, requests, events,
                   failures, history>>

\* sequelize.sync() throws: seedDatabase logs it; a first installation is
\* left without tables
SeedSyncError ==
    /\ backend = "sqlite"
    /\ seedPc = "sync"
    /\ failures < MaxFailures
    /\ ready' = IF ready = 2 THEN 0 ELSE ready
    /\ seedPc' = "failed"
    /\ failures' = failures + 1
    /\ UNCHANGED <<backend, store, now, handlers, channel, requests, events,
                   history>>

\* mongoose.connect resolves
MongoConnected ==
    /\ backend = "mongo"
    /\ ready = 2
    /\ ready' = 1
    /\ UNCHANGED <<backend, store, now, seedPc, handlers, channel, requests,
                   events, failures, history>>

\* mongoose.connect rejects
MongoConnectError ==
    /\ backend = "mongo"
    /\ ready = 2
    /\ failures < MaxFailures
    /\ ready' = 0
    /\ failures' = failures + 1
    /\ UNCHANGED <<backend, store, now, seedPc, handlers, channel, requests,
                   events, history>>

\* setTimeout(seedDatabase, 2000) fires; the readyState test
SeedTimer ==
    /\ backend = "mongo"
    /\ seedPc = "timer"
    /\ seedPc' = IF ready = 0 THEN "skipped" ELSE "find"
    /\ UNCHANGED <<backend, store, now, ready, handlers, channel, requests,
                   events, failures, history>>

\* Fault: the guard of the seed looks for the sample Shift
SarahExists == \E i \in 1..Len(shifts) : shifts[i].name = "Sarah Connor"

AdminExists == \E i \in 1..Len(users) : users[i].username = "admin"

\* User.findOne({ username: 'admin' })
SeedFind ==
    /\ seedPc = "find"
    /\ StoreUp
    /\ seedPc' = IF AdminExists THEN "skipped" ELSE "user"
    /\ UNCHANGED <<backend, store, now, ready, handlers, channel, requests,
                   events, failures, history>>

\* the admin User is created, or the create is refused and the seed stops
SeedUser ==
    /\ seedPc = "user"
    /\ StoreUp
    /\ IF UserCreateFails("admin")
       THEN /\ seedPc' = "failed"
            /\ UNCHANGED users
       ELSE /\ seedPc' = "shift"
            /\ users' = CreateUser("admin", "123", "admin")
    /\ UNCHANGED <<backend, shifts, deliveries, training, appointments,
                   shiftSeq, now, ready, handlers, channel, requests, events,
                   failures, history>>

SarahConnor(id) ==
    NewShift(id, "Sarah Connor", "Head Chef", "10:00 - 18:00", "On Duty")

\* the sample Shift: id 1 is passed by the Mongoose build and assigned by
\* the table in the Sequelize build
SeedShift ==
    /\ seedPc = "shift"
    /\ StoreUp
    /\ LET id == IF backend = "sqlite" THEN NextShiftId ELSE 1
       IN  /\ shifts' = Append(shifts, SarahConnor(id))
           /\ shiftSeq' = IF backend = "sqlite" THEN id ELSE shiftSeq
    /\ seedPc' = "delivery"
    /\ UNCHANGED <<backend, users, deliveries, training, appointments, now,
                   ready, handlers, channel, requests, events, failures,
                   history>>

Order992 == NewDelivery(992, "#ORD-992", "2x Burgers", "12 Main St", "Cooking")

\* the sample Delivery, with its id forced to 992
SeedDelivery ==
    /\ seedPc = "delivery"
    /\ StoreUp
    /\ IF backend = "sqlite" /\ \E i \in 1..Len(deliveries) : deliveries[i].id = 992
       THEN /\ seedPc' = "failed"
            /\ UNCHANGED deliveries
       ELSE /\ seedPc' = "seeded"
            /\ deliveries' = IF backend = "sqlite"
                             THEN SortById(Append(deliveries, Order992))
                             ELSE Append(deliveries, Order992)
    /\ UNCHANGED <<backend, users, shifts, training, appointments, shiftSeq,
                   now, ready, handlers, channel, requests, events, failures,
                   history>>

\* a store operation of seedDatabase throws: the catch logs it
SeedError ==
    /\ seedPc \in {"find", "user", "shift", "delivery"}
    /\ CanThrow
    /\ seedPc' = "failed"
    /\ failures' = Thrown
    /\ UNCHANGED <<backend, store, now, ready, handlers, channel, requests,
                   events, history>>

\* the seed of an empty store has completed and the store is as it left it
Pristine ==
    /\ seedPc = "seeded"
    /\ users = PersistedUsers(backend, "seeded")
    /\ shifts = PersistedShifts(backend, "seeded")
    /\ deliveries = PersistedDeliveries(backend, "seeded")

-----------------------------------------------------------------------------
(* Inputs *)

\* data.name of addWorker; "admin" is the name the seed uses
WorkerNames == {"admin", "Ann"}
WorkerRoles == {"Cook"}
WorkerTimes == {"9 - 17"}

\* name of workerToggleStatus
ToggleNames == {"Sarah Connor", "Ann", "Bob"}

\* category of updateEntry; "menu" is no key of Models
Categories == Models \cup {"menu"}

\* id of updateEntry: the seeded Shift's, the seeded Delivery's, one
\* followed by a letter and one that is no number
IdTexts == {<<"1">>, <<"9", "9", "2">>, <<"1", "x">>, <<"x">>}

\* field of updateEntry; "colour" is a column of no table
Fields == {"status", "id", "colour"}

\* value of updateEntry: a text for a text column; for id the text of a
\* number (2, and the id of Ann's Shift in a Mongoose store) or of none
Values(field) ==
    CASE field = "id"     -> {<<"2">>, ToText(ClockStart - 1), <<"x">>}
      [] field = "status" -> {"Off Duty", "Done"}
      [] OTHER            -> {"red"}

Edit(category, id, field, value) ==
    [category |-> category, id |-> id, field |-> field, value |-> value]

\* updateEntry with any input
AnyEdits ==
    UNION {{Edit(c, i, f, v) : c \in Categories, i \in IdTexts, v \in Values(f)} :
              f \in Fields}

\* updateEntry as clients send it who edit the status of the seeded Shift
\* at the same time
ConflictingEdits ==
    {Edit("shifts", <<"1">>, "status", v) : v \in Values("status")}

-----------------------------------------------------------------------------
(* io.on('connection') and getAllData *)

\* a client connects; the connection handler calls getAllData
Connect(s) ==
    /\ pc[s] = "off"
    /\ pc' = [pc EXCEPT ![s] = "shifts"]
    /\ args' = [args EXCEPT ![s] = [type |-> "connection"]]
    /\ sinceSeed' = [sinceSeed EXCEPT ![s] = Pristine]
    /\ UNCHANGED <<backend, store, now, opening, found, snap, channel,
                   requests, events, failures, toggled, ignored, partial,
                   unheard>>

\* shifts: await Shift.findAll()
ReadShifts(s) ==
    /\ pc[s] = "shifts"
    /\ StoreUp
    /\ snap' = [snap EXCEPT ![s].shifts = shifts]
    /\ pc' = [pc EXCEPT ![s] = "deliveries"]
    /\ UNCHANGED <<backend, store, now, opening, args, found, channel,
                   requests, events, failures, history>>

\* Fault: getAllData leaves out the deliveries
SkipDeliveries(s) ==
    /\ pc[s] = "deliveries"
    /\ StoreUp
    /\ pc' = [pc EXCEPT ![s] = "training"]
    /\ UNCHANGED <<backend, store, now, opening, args, found, snap, channel,
                   requests, events, failures, history>>

\* deliveries: await Delivery.findAll()
ReadDeliveries(s) ==
    /\ pc[s] = "deliveries"
    /\ StoreUp
    /\ snap' = [snap EXCEPT ![s].deliveries = deliveries]
    /\ pc' = [pc EXCEPT ![s] = "training"]
    /\ UNCHANGED <<backend, store, now, opening, args, found, channel,
                   requests, events, failures, history>>

\* training: await Training.findAll()
ReadTraining(s) ==
    /\ pc[s] = "training"
    /\ StoreUp
    /\ snap' = [snap EXCEPT ![s].training = training]
    /\ pc' = [pc EXCEPT ![s] = "appointments"]
    /\ UNCHANGED <<backend, store, now, opening, args, found, channel,
                   requests, events, failures, history>>

\* appointments: await Appointment.findAll(); getAllData returns
ReadAppointments(s) ==
    /\ pc[s] = "appointments"
    /\ StoreUp
    /\ snap' = [snap EXCEPT ![s].appointments = appointments]
    /\ pc' = [pc EXCEPT ![s] = "emit"]
    /\ UNCHANGED <<backend, store, now, opening, args, found, channel,
                   requests, events, failures, history>>

\* Fault: a broadcast goes to the clients that were sent an init before
ReceiversInitialised(s) ==
    IF args[s].type = "connection" THEN {s}
    ELSE {t \in Sockets : nInit[t] > 0}

\* the sockets an emit of socket s reaches: s alone for socket.emit in the
\* connection handler, every connected socket for io.emit
Receivers(s) ==
    IF args[s].type = "connection" THEN {s}
    ELSE {t \in Sockets : pc[t] # "off"}

\* the handler is over: its locals are gone and the socket's handlers are
\* (or stay) registered
Finished(s) ==
    /\ pc' = [pc EXCEPT ![s] = "idle"]
    /\ args' = [args EXCEPT ![s] = NoArgs]
    /\ found' = [found EXCEPT ![s] = <<>>]
    /\ snap' = [snap EXCEPT ![s] = EmptySnapshot]

\* socket.emit('init', ...) / io.emit('init', ...)
Emit(s) ==
    /\ pc[s] = "emit"
    /\ lastInit' = [t \in Sockets |->
                      IF t \in Receivers(s) THEN <<snap[s]>> ELSE lastInit[t]]
    /\ nInit' = [t \in Sockets |->
                      IF t \in Receivers(s) THEN nInit[t] + 1 ELSE nInit[t]]
    /\ Finished(s)
    /\ UNCHANGED <<backend, store, now, opening, requests, events, failures,
                   history>>

\* the events the connection handler registers a listener for
EventNames == {"addWorker", "updateEntry", "workerToggleStatus"}

\* an event of the client arrives while the connection handler awaits
\* getAllData: socket.on has not run for this socket, no listener is called
EarlyEvent(s, name) ==
    /\ args[s].type = "connection"
    /\ pc[s] \in {"shifts", "deliveries", "training", "appointments"}
    /\ Sum([t \in Sockets |-> Sum(unheard[t], EventNames)], Sockets)
          < MaxEarly
    /\ unheard' = [unheard EXCEPT ![s][name] = @ + 1]
    /\ UNCHANGED <<backend, store, now, opening, handlers, channel, requests,
                   events, failures, sinceSeed, toggled, ignored, partial>>

\* the positions of a handler where a store operation is pending
StoreOps == {"user", "shift", "update", "find", "save",
             "shifts", "deliveries", "training", "appointments"}

\* Fault: the catch sends what the handler has to the client that asked
StoreErrorRelayed(s) ==
    /\ pc[s] \in StoreOps
    /\ CanThrow
    /\ failures' = Thrown
    /\ lastInit' = [lastInit EXCEPT ![s] = <<snap[s]>>]
    /\ nInit' = [nInit EXCEPT ![s] = @ + 1]
    /\ Finished(s)
    /\ UNCHANGED <<backend, store, now, opening, requests, events, history>>

\* Fault: getAllData answers with the reads that were answered
StoreErrorPartial(s) ==
    /\ pc[s] \in StoreOps
    /\ CanThrow
    /\ failures' = Thrown
    /\ IF pc[s] \in {"deliveries", "training", "appointments"}
       THEN /\ partial' = partial + 1
            /\ pc' = [pc EXCEPT ![s] = "emit"]
            /\ UNCHANGED <<args, found, snap>>
       ELSE /\ Finished(s)
            /\ UNCHANGED partial
    /\ UNCHANGED <<backend, store, now, opening, channel, requests, events,
                   sinceSeed, toggled, ignored, unheard>>

\* the pending store operation throws: the handler's catch logs it
StoreError(s) ==
    /\ pc[s] \in StoreOps
    /\ CanThrow
    /\ failures' = Thrown
    /\ partial' = IF pc[s] \in {"deliveries", "training", "appointments"}
                  THEN partial + 1 ELSE partial
    /\ Finished(s)
    /\ UNCHANGED <<backend, store, now, opening, channel, requests, events,
                   sinceSeed, toggled, ignored, unheard>>

-----------------------------------------------------------------------------
(* socket.on('addWorker') *)

AddWorker(s, name, role, time) ==
    /\ pc[s] = "idle"
    /\ Received("addWorker") < MaxAddWorker
    /\ events' = [events EXCEPT ![s].addWorker = @ + 1]
    /\ pc' = [pc EXCEPT ![s] = "user"]
    /\ args' = [args EXCEPT ![s] = [type |-> "addWorker", name |-> name,
                                    role |-> role, time |-> time]]
    /\ UNCHANGED <<backend, store, now, opening, found, snap, channel,
                   requests, failures, history>>

\* await User.create(...): the User is stored, or the create is refused and
\* the catch ends the handler
AddWorkerUser(s) ==
    /\ pc[s] = "user"
    /\ StoreUp
    /\ IF UserCreateFails(args[s].name)
       THEN /\ Finished(s)
            /\ UNCHANGED users
       ELSE /\ users' = CreateUser(args[s].name, "123", "worker")
            /\ pc' = [pc EXCEPT ![s] = "shift"]
            /\ UNCHANGED <<args, found, snap>>
    /\ UNCHANGED <<backend, shifts, deliveries, training, appointments,
                   shiftSeq, now, opening, channel, requests, events,
                   failures, history>>

\* what Date.now() can return: the clock never runs backwards
Clock == IF backend = "sqlite" THEN {now}
         ELSE {t \in now..(ClockStart + MaxTicks) : TRUE}

\* await Shift.create(...): id is Date.now() in the Mongoose build and the
\* table's next id in the Sequelize build
AddWorkerShift(s) ==
    /\ pc[s] = "shift"
    /\ StoreUp
    /\ \E t \in Clock :
          LET id == IF backend = "sqlite" THEN NextShiftId ELSE t
          IN  /\ now' = t
              /\ shifts' = Append(shifts, NewShift(id, args[s].name,
                                     args[s].role, args[s].time, "Scheduled"))
              /\ shiftSeq' = IF backend = "sqlite" THEN id ELSE shiftSeq
    /\ pc' = [pc EXCEPT ![s] = "shifts"]
    /\ UNCHANGED <<backend, users, deliveries, training, appointments,
                   opening, args, found, snap, channel, requests, events,
                   failures, history>>

-----------------------------------------------------------------------------
(* socket.on('updateEntry') *)

\* Fault: the broadcast stands after the test of the category, not inside it
UpdateEntryUnguarded(s, category, id, field, value) ==
    /\ pc[s] = "idle"
    /\ Received("updateEntry") < MaxUpdateEntry
    /\ events' = [events EXCEPT ![s].updateEntry = @ + 1]
    /\ pc' = [pc EXCEPT ![s] = IF category \in Models THEN "update"
                                ELSE "shifts"]
    /\ args' = [args EXCEPT ![s] =
                   [type |-> "updateEntry", category |-> category,
                    id |-> ParseInt(id), field |-> field, value |-> value]]
    /\ ignored' = IF category \in Models THEN ignored ELSE ignored + 1
    /\ UNCHANGED <<backend, store, now, opening, found, snap, channel,
                   requests, failures, sinceSeed, toggled, partial,
                   unheard>>

\* the event arrives: a category outside Models ends the handler at once;
\* otherwise the update is issued with id: parseInt(id)
UpdateEntry(s, category, id, field, value) ==
    /\ pc[s] = "idle"
    /\ Received("updateEntry") < MaxUpdateEntry
    /\ events' = [events EXCEPT ![s].updateEntry = @ + 1]
    /\ IF category \in Models
       THEN /\ pc' = [pc EXCEPT ![s] = "update"]
            /\ args' = [args EXCEPT ![s] =
                           [type |-> "updateEntry", category |-> category,
                            id |-> ParseInt(id), field |-> field,
                            value |-> value]]
            /\ UNCHANGED ignored
       ELSE /\ ignored' = ignored + 1
            /\ UNCHANGED <<pc, args>>
    /\ UNCHANGED <<backend, store, now, opening, found, snap, channel,
                   requests, failures, sinceSeed, toggled, partial,
                   unheard>>

\* await Models[category].update(...) / findOneAndUpdate(...)
UpdateEntryWrite(s) ==
    /\ pc[s] = "update"
    /\ StoreUp
    /\ LET a == args[s]
       IN  IF UpdateFails(a.category, a.id, a.field, a.value)
           THEN /\ Finished(s)
                /\ UNCHANGED <<shifts, deliveries, training, appointments>>
           ELSE /\ shifts' = IF a.category = "shifts"
                             THEN Updated(a.category, a.id, a.field, a.value)
                             ELSE shifts
                /\ deliveries' = IF a.category = "deliveries"
                                 THEN Updated(a.category, a.id, a.field, a.value)
                                 ELSE deliveries
                /\ training' = IF a.category = "training"
                               THEN Updated(a.category, a.id, a.field, a.value)
                               ELSE training
                /\ appointments' = IF a.category = "appointments"
                                   THEN Updated(a.category, a.id, a.field, a.value)
                                   ELSE appointments
                /\ pc' = [pc EXCEPT ![s] = "shifts"]
                /\ UNCHANGED <<args, found, snap>>
    /\ UNCHANGED <<backend, users, shiftSeq, now, opening, channel, requests,
                   events, failures, history>>

-----------------------------------------------------------------------------
(* socket.on('workerToggleStatus') *)

WorkerToggleStatus(s, name) ==
    /\ pc[s] = "idle"
    /\ Received("workerToggleStatus") < MaxToggle
    /\ events' = [events EXCEPT ![s].workerToggleStatus = @ + 1]
    /\ pc' = [pc EXCEPT ![s] = "find"]
    /\ args' = [args EXCEPT ![s] = [type |-> "workerToggleStatus",
                                    name |-> name]]
    /\ UNCHANGED <<backend, store, now, opening, found, snap, channel,
                   requests, failures, history>>

\* await Shift.findOne(...); without a Shift the handler is over
ToggleFind(s) ==
    /\ pc[s] = "find"
    /\ StoreUp
    /\ IF FindShiftByName(args[s].name) = <<>>
       THEN Finished(s)
       ELSE /\ found' = [found EXCEPT ![s] = FindShiftByName(args[s].name)]
            /\ pc' = [pc EXCEPT ![s] = "save"]
            /\ UNCHANGED <<args, snap>>
    /\ UNCHANGED <<backend, store, now, opening, channel, requests, events,
                   failures, history>>

\* await shift.update({ status: newStatus }) / shift.save()
ToggleSave(s) ==
    /\ pc[s] = "save"
    /\ StoreUp
    /\ shifts' = SavedStatus(found[s][1], NewStatus(found[s][1]))
    /\ toggled' = Append(toggled, [name |-> args[s].name,
                                   from |-> found[s][1].status,
                                   to |-> NewStatus(found[s][1])])
    /\ pc' = [pc EXCEPT ![s] = "shifts"]
    /\ UNCHANGED <<backend, users, deliveries, training, appointments,
                   shiftSeq, now, opening, args, found, snap, channel,
                   requests, events, failures, sinceSeed, ignored,
                   partial, unheard>>

-----------------------------------------------------------------------------
(* app.post('/api/login') *)

LoginNames == {"admin", "Ann"}
LoginPasswords == {"123", "wrong"}

\* the response to a request whose findOne was answered
LoginResponse(username, password) ==
    LET user == FindUser(username, password)
    IN  IF user # <<>>
        THEN [status |-> 200, success |-> TRUE, role |-> user[1].role,
              name |-> user[1].username]
        ELSE [status |-> 401, success |-> FALSE,
              message |-> "Invalid credentials"]

Login(username, password) ==
    /\ logins < MaxLogin
    /\ logins' = logins + 1
    /\ StoreUp
    /\ loginRes' = <<[username |-> username, password |-> password,
                      res |-> LoginResponse(username, password)]>>
    /\ UNCHANGED <<backend, store, now, opening, handlers, channel, events,
                   failures, history>>

\* findOne throws: the catch answers 500
LoginError(username, password) ==
    /\ logins < MaxLogin
    /\ logins' = logins + 1
    /\ CanThrow
    /\ failures' = Thrown
    /\ loginRes' = <<[username |-> username, password |-> password,
                      res |-> [status |-> 500, success |-> FALSE]]>>
    /\ UNCHANGED <<backend, store, now, opening, handlers, channel, events,
                   history>>

-----------------------------------------------------------------------------
(* Specifications *)

Starting ==
    \/ SeedSync \/ SeedSyncError
    \/ MongoConnected \/ MongoConnectError \/ SeedTimer
    \/ SeedFind \/ SeedUser \/ SeedShift \/ SeedDelivery \/ SeedError

Snapshots(s) ==
    \/ Connect(s)
    \/ ReadShifts(s) \/ ReadDeliveries(s) \/ ReadTraining(s)
    \/ ReadAppointments(s)
    \/ Emit(s)
    \/ StoreError(s)

Workers(s) ==
    \/ \E name \in WorkerNames, role \in WorkerRoles, time \in WorkerTimes :
          AddWorker(s, name, role, time)
    \/ AddWorkerUser(s)
    \/ AddWorkerShift(s)

Updates(s, edits) ==
    \/ \E e \in edits : UpdateEntry(s, e.category, e.id, e.field, e.value)
    \/ UpdateEntryWrite(s)

Toggles(s) ==
    \/ \E name \in ToggleNames : WorkerToggleStatus(s, name)
    \/ ToggleFind(s)
    \/ ToggleSave(s)

Logins ==
    \E username \in LoginNames, password \in LoginPasswords :
       \/ Login(username, password)
       \/ LoginError(username, password)

\* clients that add workers
NextWorkers == Starting \/ \E s \in Sockets : Snapshots(s) \/ Workers(s)

SpecWorkers == Init /\ [][NextWorkers]_vars

\* clients that edit the same entries at the same time
NextUpdates ==
    Starting \/ \E s \in Sockets : Snapshots(s) \/ Updates(s, ConflictingEdits)

SpecUpdates == Init /\ [][NextUpdates]_vars

\* a client sends updateEntry with any input, MaxEdits times in all
EditOnce(s) ==
    /\ Received("updateEntry") < MaxEdits
    /\ \E e \in AnyEdits : UpdateEntry(s, e.category, e.id, e.field, e.value)

\* clients that send updateEntry with any input
NextEdits ==
    \/ Starting
    \/ \E s \in Sockets :
          \/ Snapshots(s)
          \/ EditOnce(s)
          \/ UpdateEntryWrite(s)

SpecEdits == Init /\ [][NextEdits]_vars

\* clients that toggle their status
NextToggles == Starting \/ \E s \in Sockets : Snapshots(s) \/ Toggles(s)

SpecToggles == Init /\ [][NextToggles]_vars

\* clients that toggle, and that send events as soon as they are connected
NextEarly ==
    \/ NextToggles
    \/ \E s \in Sockets, name \in EventNames : EarlyEvent(s, name)

SpecEarly == Init /\ [][NextEarly]_vars

\* a client sends workerToggleStatus for the seeded name, MaxNamesakeToggle
\* times in all
ToggleOnce(s) ==
    /\ Received("workerToggleStatus") < MaxNamesakeToggle
    /\ WorkerToggleStatus(s, "Sarah Connor")

\* clients that add a worker under the name of the seeded Shift and toggle it
NextNamesakes ==
    \/ Starting
    \/ \E s \in Sockets :
          \/ Snapshots(s)
          \/ \E role \in WorkerRoles, time \in WorkerTimes :
                AddWorker(s, "Sarah Connor", role, time)
          \/ AddWorkerUser(s)
          \/ AddWorkerShift(s)
          \/ ToggleOnce(s)
          \/ ToggleFind(s)
          \/ ToggleSave(s)

SpecNamesakes == Init /\ [][NextNamesakes]_vars

\* clients that log in
NextLogins == Starting \/ Logins

SpecLogins == Init /\ [][NextLogins]_vars

-----------------------------------------------------------------------------
(* Properties *)

Rows(rows) == {rows[i] : i \in 1..Len(rows)}

\* no handler is running and every client is connected
Quiet == \A s \in Sockets : pc[s] = "idle"

\* the run started on a store that held the seeded records, and the seed
\* has written nothing
StartedSeeded ==
    /\ seedPc \in {"sync", "timer", "find", "skipped"}
    /\ shifts # <<>>

\* the status of the Shifts with a given id, as a set
StatusOf(rows, id) == {r.status : r \in {q \in Rows(rows) : q.id = id}}

\* the step is one of socket s's handler
StepOf(s) == pc'[s] # pc[s]

\* the store answers the operation of the step: it does not throw
Answered == StoreUp /\ failures' = failures

\* rows `after` is rows `before` with one row appended
Appended(before, after) ==
    /\ Len(after) = Len(before) + 1
    /\ SubSeq(after, 1, Len(before)) = before

\* C1: two clients have each sent one updateEntry for the status of Shift 1
\* with different values, both handlers are over and no store operation has
\* thrown; then the store holds one of the two values for Shift 1 and the
\* last init message of every client carries that value for Shift 1.
C1_LastWriteWinsEverywhere ==
    (/\ Quiet
     /\ StartedSeeded
     /\ failures = 0
     /\ \A s \in Sockets : events[s].updateEntry = 1)
    => /\ StatusOf(shifts, 1) \subseteq Values("status")
       /\ \A s \in Sockets :
             /\ lastInit[s] # <<>>
             /\ StatusOf(lastInit[s][1].shifts, 1) = StatusOf(shifts, 1)

\* C2: the User create of addWorker, executed for a name no User has and
\* answered by the store, appends one User (username = name, role "worker")
\* and nothing else; the Shift create, answered by the store, appends one
\* Shift (that name, role and time, status "Scheduled") and nothing else; no
\* other step of the handler writes to the store; and the init the handler
\* emits reaches every connected client with a Shift of that name in it.
C2_AddWorkerCreatesUserAndShift ==
    [][\A s \in Sockets :
          (args[s].type = "addWorker" /\ StepOf(s)) =>
             LET a == args[s]
                 free == \A r \in Rows(users) : r.username # a.name
             IN  /\ (pc[s] = "user" /\ free /\ Answered) =>
                        pc'[s] = "shift"
                 /\ (pc[s] = "user" /\ pc'[s] = "shift") =>
                        /\ Appended(users, users')
                        /\ users'[Len(users')].username = a.name
                        /\ users'[Len(users')].role = "worker"
                        /\ UNCHANGED <<shifts, deliveries, training,
                                       appointments>>
                 /\ (pc[s] = "shift" /\ Answered) =>
                        /\ pc'[s] = "shifts"
                        /\ Appended(shifts, shifts')
                        /\ LET new == shifts'[Len(shifts')]
                           IN  /\ new.name = a.name
                               /\ new.role = a.role
                               /\ new.time = a.time
                               /\ new.status = "Scheduled"
                        /\ UNCHANGED <<users, deliveries, training,
                                       appointments>>
                 /\ (pc[s] \notin {"user", "shift"} \/ pc'[s] = "idle") =>
                        UNCHANGED store
                 /\ pc[s] = "emit" =>
                        \A t \in Sockets :
                           pc[t] # "off" =>
                              /\ nInit'[t] = nInit[t] + 1
                              /\ \E r \in Rows(lastInit'[t][1].shifts) :
                                    r.name = a.name]_vars

\* C2 witness: Ann was added to the seeded store and the client that asked
\* for it holds an init with her Shift
C2_AnnAdded ==
    \E s \in Sockets :
       /\ events[s].addWorker = 1
       /\ pc[s] = "idle"
       /\ failures = 0
       /\ Len(users) = 2 /\ users[2].username = "Ann"
       /\ users[2].role = "worker"
       /\ Len(shifts) = 2 /\ shifts[2].name = "Ann"
       /\ shifts[2].status = "Scheduled"
       /\ lastInit[s] # <<>>
       /\ lastInit[s][1].shifts = shifts

\* the status the store holds for the row an instance stands for, as a set
RowStatus(rows, instance) ==
    {r.status : r \in {q \in Rows(rows) : SameRow(q, instance)}}

\* the status of the Shifts with a given name, as a set
StatusByName(rows, name) == {r.status : r \in {q \in Rows(rows) : q.name = name}}

\* the step is the write of socket s's workerToggleStatus
SaveOf(s) == pc[s] = "save" /\ pc'[s] = "shifts"

\* C3: the write of workerToggleStatus stores "Off Duty" for a Shift found
\* "On Duty" and "On Duty" for a Shift found "Off Duty"; of two writes for the
\* same name that follow each other, the second for a Shift found as the
\* first left it, the second stores the status the first one found; and the
\* Shift keeps the status the last write stored.
C3_ToggleFlipsAndReturns ==
    /\ [][\A s \in Sockets :
             SaveOf(s) =>
                LET shift == found[s][1]
                IN  /\ shift.status = "On Duty" =>
                          RowStatus(shifts', shift) = {"Off Duty"}
                    /\ shift.status = "Off Duty" =>
                          RowStatus(shifts', shift) = {"On Duty"}]_vars
    /\ [](\A k \in 1..(Len(toggled) - 1) :
             LET first  == toggled[k]
                 second == toggled[k + 1]
             IN  (/\ second.name = first.name
                  /\ second.from = first.to
                  /\ first.from \in {"On Duty", "Off Duty"})
                 => second.to = first.from)
    /\ [](toggled # <<>> =>
             LET last == toggled[Len(toggled)]
             IN  StatusByName(shifts, last.name) = {last.to})

\* C3 witness: Sarah Connor, on duty, has toggled twice, one handler after
\* the other, and is on duty
C3_ToggledTwice ==
    /\ Quiet
    /\ failures = 0
    /\ toggled = <<[name |-> "Sarah Connor", from |-> "On Duty",
                    to |-> "Off Duty"],
                   [name |-> "Sarah Connor", from |-> "Off Duty",
                    to |-> "On Duty"]>>
    /\ StatusByName(shifts, "Sarah Connor") = {"On Duty"}

\* the instance has a status workerToggleStatus does not name
OtherStatus(shift) == shift.status \notin {"On Duty", "Off Duty"}

\* C4, as claimed: the write of workerToggleStatus for a Shift found in a
\* status other than "On Duty" and "Off Duty" leaves the stored status as it
\* was.
C4_OtherStatusUnchanged ==
    [][\A s \in Sockets :
          (SaveOf(s) /\ OtherStatus(found[s][1])) =>
             RowStatus(shifts', found[s][1]) = RowStatus(shifts, found[s][1])]_vars

\* C4, as the code has it: the write of workerToggleStatus for a Shift found
\* in a status other than "On Duty" and "Off Duty" stores "On Duty".
C4_OtherStatusBecomesOnDuty ==
    [][\A s \in Sockets :
          (SaveOf(s) /\ OtherStatus(found[s][1])) =>
             RowStatus(shifts', found[s][1]) = {"On Duty"}]_vars

\* C4 witness: Ann, scheduled, has toggled and is on duty
C4_ScheduledToggled ==
    /\ \E k \in 1..Len(toggled) :
          toggled[k] = [name |-> "Ann", from |-> "Scheduled", to |-> "On Duty"]
    /\ StatusByName(shifts, "Ann") = {"On Duty"}

\* C5: the step that receives an updateEntry whose category no table has
\* leaves every table, the User table included, as it was, starts no handler
\* and sends no init to any client.
C5_UnknownCategoryIgnored ==
    [][ignored' # ignored => UNCHANGED <<store, handlers, channel>>]_vars

\* C5 witness: both clients hold the init of their connection and nothing
\* else after an updateEntry for category "menu" was received
C5_MenuIgnored ==
    /\ Quiet
    /\ ignored = 1
    /\ shifts # <<>>
    /\ \A s \in Sockets : nInit[s] = 1

\* C6: when the User create of addWorker meets a User with username = name
\* under the unique index, the handler is over with that step: the store is
\* as it was and no init is sent.
C6_DuplicateUsernameAborts ==
    [][\A s \in Sockets :
          (/\ args[s].type = "addWorker"
           /\ pc[s] = "user"
           /\ StepOf(s)
           /\ UsernameUnique
           /\ \E r \in Rows(users) : r.username = args[s].name)
          => /\ pc'[s] = "idle"
             /\ UNCHANGED store
             /\ UNCHANGED channel]_vars

\* C6 witness: on the seeded Sequelize store an addWorker for "admin" is over
\* without a thrown store operation and without an init
C6_AdminRefused ==
    \E s \in Sockets :
       /\ backend = "sqlite"
       /\ StartedSeeded
       /\ failures = 0
       /\ events[s].addWorker = 1
       /\ pc[s] = "idle"
       /\ nInit[s] = 1
       /\ Len(users) = 1
       /\ Len(shifts) = 1

\* C7: no two User records have the same username.
C7_NoDuplicateUsernames ==
    \A i, j \in 1..Len(users) :
       users[i].username = users[j].username => i = j

\* the identifier of a User: the primary key id, or _id
UserId(user) == IF backend = "sqlite" THEN user.id ELSE user._id

\* C8: within each kind of record no two records have the same identifier.
C8_IdentifiersUnique ==
    /\ \A i, j \in 1..Len(users) : UserId(users[i]) = UserId(users[j]) => i = j
    /\ \A rows \in {shifts, deliveries, training, appointments} :
          \A i, j \in 1..Len(rows) : rows[i].id = rows[j].id => i = j

\* C9: a login request whose lookup the store answers is answered 200 with
\* success, the role and the username of a stored User when a User with
\* that username and that password exists, and 401 without success when none
\* does; with the seeded admin stored, ("admin", "123") is answered with
\* role "admin" and name "admin", and ("admin", "wrong") with 401.
C9_LoginAnswers ==
    [][(logins' # logins /\ loginRes'[1].res.status # 500) =>
          LET q == loginRes'[1]
              matching == {r \in Rows(users) : /\ r.username = q.username
                                               /\ r.password = q.password}
          IN  /\ matching # {} =>
                    /\ q.res.status = 200
                    /\ q.res.success = TRUE
                    /\ \E r \in matching : /\ q.res.role = r.role
                                            /\ q.res.name = r.username
              /\ matching = {} =>
                    /\ q.res.status = 401
                    /\ q.res.success = FALSE
              /\ (AdminExists /\ q.username = "admin") =>
                    IF q.password = "123"
                    THEN q.res = [status |-> 200, success |-> TRUE,
                                  role |-> "admin", name |-> "admin"]
                    ELSE q.res.status = 401]_vars

\* C9 witness: the seed has completed in this run and ("admin", "123") was
\* answered 200 after ("admin", "wrong") or another request
C9_AdminLoggedIn ==
    /\ seedPc = "seeded"
    /\ logins = 2
    /\ loginRes # <<>>
    /\ loginRes[1].username = "admin"
    /\ loginRes[1].password = "123"
    /\ loginRes[1].res.status = 200

\* C10: the init a connection handler emits goes to its client and is the
\* snapshot the handler read; and a client that connected to a store that
\* was as a completed seed of an empty store left it holds, once it has an
\* init, one whose shifts contain the "Sarah Connor" record and whose
\* deliveries contain the "#ORD-992" record.
C10_InitAfterSeed ==
    /\ [][\A s \in Sockets :
             (args[s].type = "connection" /\ pc[s] = "emit" /\ StepOf(s)) =>
                /\ nInit'[s] = nInit[s] + 1
                /\ lastInit'[s] = <<snap[s]>>]_vars
    /\ [](\A s \in Sockets :
             (sinceSeed[s] /\ lastInit[s] # <<>>) =>
                /\ \E r \in Rows(lastInit[s][1].shifts) :
                      /\ r.id = 1
                      /\ r.name = "Sarah Connor"
                      /\ r.role = "Head Chef"
                      /\ r.time = "10:00 - 18:00"
                      /\ r.status = "On Duty"
                /\ \E r \in Rows(lastInit[s][1].deliveries) :
                      /\ r.id = 992
                      /\ r.label = "#ORD-992"
                      /\ r.items = "2x Burgers"
                      /\ r.address = "12 Main St"
                      /\ r.status = "Cooking")

\* C10 witness: a client connected after the seed of an empty store and
\* holds the init of its connection
C10_ConnectedAfterSeed ==
    \E s \in Sockets :
       /\ sinceSeed[s]
       /\ nInit[s] = 1
       /\ pc[s] = "idle"
       /\ events[s].addWorker = 0
       /\ lastInit[s] # <<>>
       /\ Len(lastInit[s][1].shifts) = 1

\* the tables, without the bookkeeping of the store
tables == <<users, shifts, deliveries, training, appointments>>

\* the step is one of seedDatabase
SeedStep == seedPc' # seedPc

\* C11: a step of seedDatabase taken, up to and including its findOne, on a
\* store that holds a User "admin" creates no record and changes none, and
\* does not lead seedDatabase to any of its creates, whether or not the
\* sample Shift and Delivery are stored.
C11_SeedIdempotent ==
    [][(/\ SeedStep
        /\ seedPc \in {"sync", "timer", "find"}
        /\ \E r \in Rows(users) : r.username = "admin")
       => /\ UNCHANGED tables
          /\ seedPc' \in {"find", "skipped", "failed"}]_vars

\* C11 witness: seedDatabase found a User "admin" and returned on a store
\* without the sample Shift and the sample Delivery
C11_SkippedWithoutSamples ==
    /\ seedPc = "skipped"
    /\ \E r \in Rows(users) : r.username = "admin"
    /\ shifts = <<>>
    /\ deliveries = <<>>

\* the events the mutation handlers are registered for
Mutations == {"addWorker", "updateEntry", "workerToggleStatus"}

\* C12: the step in which a store operation of an addWorker, updateEntry or
\* workerToggleStatus handler fails ends that handler, sends no message to
\* any client and leaves every other handler where it was; the socket's
\* handlers stay registered.  No step that ends such a handler at a store
\* operation sends a message.
C12_FailureIsSilent ==
    [][\A s \in Sockets :
          (args[s].type \in Mutations /\ StepOf(s)) =>
             /\ failures' # failures =>
                   /\ pc'[s] = "idle"
                   /\ UNCHANGED channel
                   /\ \A t \in Sockets \ {s} :
                         pc'[t] = pc[t] /\ args'[t] = args[t]
             /\ (pc[s] \in StoreOps /\ pc'[s] = "idle") =>
                   UNCHANGED channel]_vars

\* C12 witness: one client, on a store the seed left alone, has sent two
\* workerToggleStatus events for Sarah Connor; the handler of the first wrote
\* and then failed in getAllData, so no init was sent for it; the handler of
\* the second ran to its broadcast
C12_ProcessedAfterFailure ==
    /\ StartedSeeded
    /\ seedPc = "skipped"
    /\ failures = 1
    /\ pc = [s \in Sockets |-> IF s = "s1" THEN "idle" ELSE "off"]
    /\ events["s1"].workerToggleStatus = 2
    /\ Len(toggled) = 2
    /\ toggled[1].name = "Sarah Connor"
    /\ toggled[2].name = "Sarah Connor"
    /\ nInit["s1"] = 2
    /\ lastInit["s1"][1].shifts = shifts

\* the positions of getAllData
Reads == {"shifts", "deliveries", "training", "appointments"}

\* C13: the step in which a read of a connection handler's getAllData
\* throws sends no message and leaves the socket connected with its handlers
\* registered; and the init a mutation handler emits is delivered to every
\* connected client, a client that holds no init included.
C13_ConnectionSurvivesStoreError ==
    [][\A s \in Sockets :
          /\ (/\ args[s].type = "connection"
              /\ pc[s] \in Reads
              /\ pc'[s] \notin Reads \cup {"emit"})
             => /\ pc'[s] = "idle"
                /\ UNCHANGED channel
          /\ (args[s].type \in Mutations /\ pc[s] = "emit" /\ StepOf(s))
             => \A t \in Sockets :
                   pc[t] # "off" =>
                      /\ nInit'[t] = nInit[t] + 1
                      /\ lastInit'[t] = <<snap[s]>>]_vars

\* C13 witness: on a store the seed left alone the only failure of the run
\* was in the connection handler of s1, which has sent no event; s2
\* connected and added a worker, and s1 holds the init of that broadcast
C13_BroadcastAfterFailedConnect ==
    /\ StartedSeeded
    /\ seedPc = "skipped"
    /\ failures = 1
    /\ Quiet
    /\ events["s1"].addWorker = 0
    /\ events["s2"].addWorker = 1
    /\ nInit["s1"] = 1
    /\ nInit["s2"] = 2
    /\ lastInit["s1"] = lastInit["s2"]
    /\ lastInit["s1"][1].shifts = shifts

\* the keys of a snapshot
SnapshotKeys == {"shifts", "deliveries", "training", "appointments"}

\* C14: getAllData reads the four tables in turn and returns after the
\* fourth; a read of it that throws ends the handler that called it with
\* nothing sent and what was read thrown away; a message is sent only by a
\* handler whose getAllData returned, and it is the object getAllData
\* returned, with the four keys.
C14_SnapshotAllOrNothing ==
    [][/\ \A s \in Sockets :
             StepOf(s) =>
                /\ pc'[s] = "deliveries" =>
                      /\ pc[s] = "shifts"
                      /\ snap'[s] = [snap[s] EXCEPT !.shifts = shifts]
                /\ pc'[s] = "training" =>
                      /\ pc[s] = "deliveries"
                      /\ snap'[s] = [snap[s] EXCEPT !.deliveries = deliveries]
                /\ pc'[s] = "appointments" =>
                      /\ pc[s] = "training"
                      /\ snap'[s] = [snap[s] EXCEPT !.training = training]
                /\ pc'[s] = "emit" =>
                      /\ pc[s] = "appointments"
                      /\ snap'[s] =
                            [snap[s] EXCEPT !.appointments = appointments]
                /\ (pc[s] \in Reads /\ pc'[s] \notin Reads \cup {"emit"}) =>
                      /\ pc'[s] = "idle"
                      /\ snap'[s] = EmptySnapshot
                      /\ UNCHANGED channel
       /\ ~(UNCHANGED channel) =>
             \E s \in Sockets :
                /\ pc[s] = "emit"
                /\ StepOf(s)
                /\ DOMAIN snap[s] = SnapshotKeys
                /\ \A t \in Sockets :
                      \/ lastInit'[t] = <<snap[s]>> /\ nInit'[t] = nInit[t] + 1
                      \/ lastInit'[t] = lastInit[t] /\ nInit'[t] = nInit[t]]_vars

\* C14 witness: the getAllData of the only connection threw after its read
\* of Shift was answered, on a store that holds the seeded records, and the
\* client holds no init
C14_PartialReadDropped ==
    /\ StartedSeeded
    /\ partial = 1
    /\ pc = [s \in Sockets |-> IF s = "s1" THEN "idle" ELSE "off"]
    /\ nInit["s1"] = 0
    /\ lastInit["s1"] = <<>>

\* row `new` is row `old` with at most the named field changed, to the value
\* sent (for the Number column id: to the number the value is the text of)
OnlyFieldSet(old, new, field, value) ==
    /\ DOMAIN new = DOMAIN old
    /\ \A f \in DOMAIN old \ {field} : new[f] = old[f]
    /\ field \in DOMAIN old \ {"_id"} =>
          IF field = "id" THEN ToText(new.id) = value ELSE new[field] = value

\* the table behind a category after the step
TableNext(category) ==
    CASE category = "shifts"       -> shifts'
      [] category = "deliveries"   -> deliveries'
      [] category = "training"     -> training'
      [] category = "appointments" -> appointments'

C16_TwoTogglesRestore ==
    (/\ Quiet
     /\ failures = 0
     /\ Len(toggled) = 2
     /\ toggled[1].name = toggled[2].name
     /\ toggled[1].from \in {"On Duty", "Off Duty"})
    => StatusByName(shifts, toggled[1].name) = {toggled[1].from}

\* what getAllData would return if its four reads were one step
StoreSnapshot ==
    [shifts |-> shifts, deliveries |-> deliveries,
     training |-> training, appointments |-> appointments]

\* C17: every client is connected, no handler is running, the seed has
\* written nothing and no store operation has thrown; then the last init
\* message of every client that holds one is the content of the store.
C17_LastInitIsStore ==
    (/\ Quiet
     /\ StartedSeeded
     /\ failures = 0)
    => \A s \in Sockets :
          lastInit[s] # <<>> => lastInit[s][1] = StoreSnapshot

\* what the four tables hold at the moments of a run in which no client has
\* sent an event: a store an earlier run left, an empty store after the
\* seed's Shift, and an empty store after the seed's Shift and Delivery
SeedMoments ==
    LET moment(s, d) == [shifts |-> s, deliveries |-> d,
                         training |-> <<>>, appointments |-> <<>>]
    IN  {moment(PersistedShifts(backend, p), PersistedDeliveries(backend, p)) :
            p \in Persisted}
        \cup {moment(PersistedShifts(backend, "seeded"), <<>>)}

\* no client has sent an addWorker, updateEntry or workerToggleStatus event
NoEventSent == \A s \in Sockets : \A e \in Mutations : events[s][e] = 0

\* C18: while no client has sent an event, the only writes being those of
\* the seed, the init message a client holds is the content of the four
\* tables at one of the moments of the run.
C18_SnapshotIsOneMoment ==
    NoEventSent =>
       \A s \in Sockets :
          lastInit[s] # <<>> => lastInit[s][1] \in SeedMoments

\* the store itself is at one of those moments
StoreAtSeedMoment == NoEventSent => StoreSnapshot \in SeedMoments

\* C19: every event a connected client has sent has reached the listener of
\* its name: none has arrived at a socket that had no listener for it.
C19_NoEventUnheard ==
    \A s \in Sockets : \A name \in EventNames : unheard[s][name] = 0

\* C20: the findOne of workerToggleStatus, answered for a name no Shift has,
\* ends the handler with no record changed and no message sent; answered
\* for a name some Shift has it changes nothing and leads to the write; the
\* write sets the status of the first Shift of that name, to "Off Duty" if
\* the findOne found it "On Duty" and to "On Duty" otherwise, and leaves
\* every other Shift, those of the same name included, and every other table
\* as they were.
C20_ToggleTouchesFirstMatch ==
    [][\A s \in Sockets :
          (args[s].type = "workerToggleStatus" /\ StepOf(s)) =>
             LET hit   == {i \in 1..Len(shifts) : shifts[i].name = args[s].name}
                 first == CHOOSE i \in hit : \A j \in hit : i <= j
             IN  /\ (pc[s] = "find" /\ Answered) =>
                       /\ UNCHANGED tables
                       /\ UNCHANGED channel
                       /\ pc'[s] = IF hit = {} THEN "idle" ELSE "save"
                 /\ SaveOf(s) =>
                       /\ hit # {}
                       /\ UNCHANGED <<users, deliveries, training, appointments>>
                       /\ UNCHANGED channel
                       /\ Len(shifts') = Len(shifts)
                       /\ \A i \in 1..Len(shifts) \ {first} : shifts'[i] = shifts[i]
                       /\ shifts'[first] =
                             [shifts[first] EXCEPT !.status =
                                 IF found[s][1].status = "On Duty"
                                 THEN "Off Duty" ELSE "On Duty"]]_vars

\* two Shifts are named "Sarah Connor"; a toggle of that name has turned the
\* first "Off Duty" and left the second "Scheduled", and every client holds
\* an init that shows it
C20_NamesakeKept ==
    /\ Quiet
    /\ failures = 0
    /\ Len(toggled) = 1
    /\ Len(shifts) = 2
    /\ shifts[1].name = "Sarah Connor" /\ shifts[1].status = "Off Duty"
    /\ shifts[2].name = "Sarah Connor" /\ shifts[2].status = "Scheduled"
    /\ \A s \in Sockets : lastInit[s] = <<StoreSnapshot>>

====
